---- MODULE Spec2Model ----
(***************************************************************************)
(* Model of Chapter_04.py: state_controllability, state_observability,     *)
(* is_min_realisation, pole_zero_directions and zero.                      *)
(*                                                                         *)
(* Every function of the module is a pure function of its arguments, so    *)
(* the state machine is the sequence of calls a client makes: one action   *)
(* per function, whose inputs are drawn from bounded sets and whose effect *)
(* is the whole call (return values, the exception raised, and the calls   *)
(* made to the outside providers: the eigen-decomposition, the evaluator G *)
(* and the SVD helper).                                                    *)
(*                                                                         *)
(* Numbers. Matrix entries are floats in the source. Here a float is a     *)
(* fixed-point integer counting units of 1/Unit, Unit = 10^(decimals+1),   *)
(* so that np.around(x, 3) has something to round away. The input sets are *)
(* chosen so that every product formed is exact in this representation.    *)
(***************************************************************************)
EXTENDS Integers, Sequences, FiniteSets, TLC

VARIABLES fn, args, locals, ret, err, trace

vars == <<fn, args, locals, ret, err, trace>>

(***************************************************************************)
(* Bounds of the model.                                                    *)
(***************************************************************************)
\* largest state dimension n of A
MaxN == 2
\* longest list of pole/zero locations
MaxLen == 2
\* largest magnitude of an entry of the scalar systems handed to zero()
MaxVal == 2

(***************************************************************************)
(* Fixed-point numbers.                                                    *)
(***************************************************************************)
\* np.around(..., 3): the number of decimals kept
decimals == 3

\* 1.0 in fixed-point units: one decimal more than np.around keeps
Unit == 10 ^ (decimals + 1)

\* the weight of the last decimal np.around keeps, in units
Step == Unit \div (10 ^ decimals)

Abs(x) == IF x < 0 THEN -x ELSE x

\* float product x*y (exact on the inputs of the model)
Mul(x, y) == (x * y) \div Unit

RECURSIVE SumSeq(_)
SumSeq(s) == IF s = <<>> THEN 0 ELSE Head(s) + SumSeq(Tail(s))

\* np.around(x, 3): round to 3 decimals, halves to the even neighbour
around(x) ==
    LET q == x \div Step
        r == x % Step
    IN  IF 2 * r < Step THEN q * Step
        ELSE IF 2 * r > Step THEN (q + 1) * Step
        ELSE IF q % 2 = 0 THEN q * Step ELSE (q + 1) * Step

\* integer square root by bisection, for the Euclidean norm:
\* the r in lo..hi with r*r <= n < (r+1)*(r+1)
RECURSIVE Bisect(_, _, _)
Bisect(n, lo, hi) ==
    IF lo = hi THEN lo
    ELSE LET mid == (lo + hi + 1) \div 2
         IN  IF mid * mid <= n THEN Bisect(n, mid, hi) ELSE Bisect(n, lo, mid - 1)

ISqrt(n) == Bisect(n, 0, IF n < 4 * Unit THEN n ELSE 4 * Unit)

(***************************************************************************)
(* Matrices: a matrix is a sequence of rows, a row a sequence of numbers.  *)
(***************************************************************************)
Rows(M) == Len(M)
Cols(M) == Len(M[1])
shape(M) == <<Rows(M), Cols(M)>>

Matrix(r, c, S) == [1..r -> [1..c -> S]]

\* np.eye(n), as floats
eye(n) == [i \in 1..n |-> [j \in 1..n |-> IF i = j THEN Unit ELSE 0]]

\* np.zeros((r, c))
zeros(r, c) == [i \in 1..r |-> [j \in 1..c |-> 0]]

\* M.T and, the entries being real, M.H
Transpose(M) == [j \in 1..Cols(M) |-> [i \in 1..Rows(M) |-> M[i][j]]]

\* column j of M as a 1-D array: M[:, j]
Col(M, j) == [i \in 1..Rows(M) |-> M[i][j]]

\* X * Y of np.matrix (np.dot); the caller checks Cols(X) = Rows(Y)
MatMul(X, Y) ==
    [i \in 1..Rows(X) |->
        [j \in 1..Cols(Y) |->
            SumSeq([k \in 1..Cols(X) |-> Mul(X[i][k], Y[k][j])])]]

\* A**k of np.matrix: the k-th matrix power, A**0 the identity
RECURSIVE MatPow(_, _)
MatPow(M, k) == IF k = 0 THEN eye(Rows(M)) ELSE MatMul(MatPow(M, k - 1), M)

\* np.hstack(ms) of matrices with the same number of rows
RECURSIVE hstack(_)
hstack(ms) ==
    IF Len(ms) = 1 THEN ms[1]
    ELSE LET rest == hstack(Tail(ms))
         IN  [i \in 1..Rows(ms[1]) |-> ms[1][i] \o rest[i]]

\* np.vstack(ms) of matrices with the same number of columns
RECURSIVE vstack(_)
vstack(ms) == IF Len(ms) = 1 THEN ms[1] ELSE ms[1] \o vstack(Tail(ms))

\* np.linalg.norm(x) of an m x 1 matrix: the Euclidean norm
norm(x) == ISqrt(SumSeq([i \in 1..Rows(x) |-> x[i][1] * x[i][1]]))

\* np.sum(x): the sum of all the entries
sum(x) == SumSeq([i \in 1..Rows(x) |-> SumSeq(x[i])])

IsSquare(M) == Rows(M) = Cols(M)
IsDiagonal(M) ==
    IsSquare(M) /\ \A i, j \in 1..Rows(M) : i # j => M[i][j] = 0

(***************************************************************************)
(* The eigen-decomposition provider, scipy.linalg.eig (LAPACK geev).       *)
(* It returns the eigenvectors as the columns of a matrix, each of         *)
(* Euclidean norm 1. Its result is modelled on the two classes of A the    *)
(* model hands it, where geev's result is known exactly:                   *)
(*   - A diagonal: the eigenvalues in diagonal order, the left and the     *)
(*     right eigenvectors the columns of the identity;                     *)
(*   - A = [[a, b], [0, a]], b > 0 (one defective eigenvalue): geev solves *)
(*     the singular triangular system with the pivot perturbed to about    *)
(*     1e-292, which gives vr = [[1, -1], [0, t]], vl = [[t, 0], [-1, 1]]  *)
(*     with t about 2e-292. t is far below the resolution 1/Unit, rounds   *)
(*     to 0 under np.around and underflows to 0 when the norm squares it,  *)
(*     so it is the fixed-point number 0.                                  *)
(***************************************************************************)
IsJordan(M) ==
    shape(M) = <<2, 2>> /\ M[1][1] = M[2][2] /\ M[2][1] = 0 /\ M[1][2] > 0

\* vl of spla.eig(A, left=True, right=False)
eig_left(M) ==
    IF IsJordan(M) THEN <<  <<0, 0>>, <<-Unit, Unit>>  >>
    ELSE eye(Rows(M))

\* vr of spla.eig(A, left=False, right=True)
eig_right(M) ==
    IF IsJordan(M) THEN <<  <<Unit, -Unit>>, <<0, 0>>  >>
    ELSE eye(Rows(M))

(***************************************************************************)
(* Calls to the outside, in the order a call makes them.                   *)
(***************************************************************************)
Ev(op, at) == [op |-> op, at |-> at]

NoValue == [none |-> TRUE]

(***************************************************************************)
(* state_controllability(A, B)                                             *)
(***************************************************************************)
\* vli.T of line 34-35: column i of vl as an n x 1 matrix
ColMatrix(M, i) == [k \in 1..Rows(M) |-> <<M[k][i]>>]

\* lines 32-35: the input pole vectors B.H * vli.T, one per column of vl
u_p_of(A, B) ==
    LET vl == eig_left(A)
    IN  [i \in 1..Cols(vl) |-> MatMul(Transpose(B), ColMatrix(vl, i))]

\* a slip of line 36: all() written for any()
state_control_all(u_p) == ~ (\A i \in 1..Len(u_p) : norm(u_p[i]) = 0)

\* line 36: not any(np.linalg.norm(x) == 0.0 for x in u_p)
state_control_of(u_p) == ~ (\E i \in 1..Len(u_p) : norm(u_p[i]) = 0)

\* a slip of line 39: the powers run from 1 to n
control_matrix_from_1(A, B) ==
    hstack([k \in 1..Cols(A) |-> MatMul(MatPow(A, k), B)])

\* lines 39-40: np.hstack([A**n*B for n in range(A.shape[1])])
control_matrix_of(A, B) ==
    hstack([k \in 1..Cols(A) |-> MatMul(MatPow(A, k - 1), B)])

\* a variant that validates the shape of B before it decomposes A
state_controllability_checked(A, B) ==
    IF ~ IsSquare(A) \/ Rows(B) # Rows(A)
    THEN [err |-> "ValueError", trace |-> <<>>, val |-> NoValue]
    ELSE LET u_p == u_p_of(A, B)
         IN  [err |-> "none",
              trace |-> <<Ev("eig", A)>>,
              val |-> [state_control |-> state_control_of(u_p),
                       u_p |-> u_p,
                       control_matrix |-> control_matrix_of(A, B)]]

state_controllability(A, B) ==
    IF ~ IsSquare(A)
    THEN \* line 31: spla.eig rejects a non-square matrix before decomposing
         [err |-> "ValueError", trace |-> <<>>, val |-> NoValue]
    ELSE IF Rows(B) # Rows(A)
    THEN \* line 35: B.H * vli.T raises on the first eigenvector
         [err |-> "ValueError", trace |-> <<Ev("eig", A)>>, val |-> NoValue]
    ELSE LET u_p == u_p_of(A, B)
         IN  [err |-> "none",
              trace |-> <<Ev("eig", A)>>,
              val |-> [state_control |-> state_control_of(u_p),
                       u_p |-> u_p,
                       control_matrix |-> control_matrix_of(A, B)]]

(***************************************************************************)
(* state_observability(A, C)                                               *)
(***************************************************************************)
\* C.dot(x) for a 1-D x: a 1 x p matrix
dot(C, x) == << [j \in 1..Rows(C) |-> SumSeq([k \in 1..Cols(C) |-> Mul(C[j][k], x[k])])] >>

\* np.around(M, 3), entry by entry
around_matrix(M) == [i \in 1..Rows(M) |-> [j \in 1..Cols(M) |-> around(M[i][j])]]

\* line 61: [np.around(C.dot(x), 3) for x in vr.T]
out_pole_vec_of(A, C) ==
    LET vr == eig_right(A)
    IN  [i \in 1..Cols(vr) |-> around_matrix(dot(C, Col(vr, i)))]

\* a variant of line 63 that tests every entry instead of the sum
state_obsr_entries(out_pole_vec) ==
    ~ (\E i \in 1..Len(out_pole_vec) :
          \A j \in 1..Cols(out_pole_vec[i]) : out_pole_vec[i][1][j] = 0)

\* line 63: not any(np.sum(x)==0.0 for x in out_pole_vec)
state_obsr_of(out_pole_vec) ==
    ~ (\E i \in 1..Len(out_pole_vec) : sum(out_pole_vec[i]) = 0)

\* lines 66-67: np.vstack([C*A**n for n in range(A.shape[1])])
observe_matrix_of(A, C) ==
    vstack([k \in 1..Cols(A) |-> MatMul(C, MatPow(A, k - 1))])

state_observability(A, C) ==
    IF ~ IsSquare(A)
    THEN \* line 60: spla.eig rejects a non-square matrix before decomposing
         [err |-> "ValueError", trace |-> <<>>, val |-> NoValue]
    ELSE IF Cols(C) # Rows(A)
    THEN \* line 61: C.dot(x) raises on the first eigenvector
         [err |-> "ValueError", trace |-> <<Ev("eig", A)>>, val |-> NoValue]
    ELSE LET out_pole_vec == out_pole_vec_of(A, C)
         IN  [err |-> "none",
              trace |-> <<Ev("eig", A)>>,
              val |-> [state_obsr |-> state_obsr_of(out_pole_vec),
                       out_pole_vec |-> out_pole_vec,
                       observe_matrix |-> observe_matrix_of(A, C)]]

(***************************************************************************)
(* is_min_realisation(A, B, C)                                             *)
(***************************************************************************)
\* a slip of line 83: or written for and
is_min_real_or(state_control, state_obsr) == state_control \/ state_obsr

\* line 83: state_control and state_obsr
is_min_real_of(state_control, state_obsr) == state_control /\ state_obsr

is_min_realisation(A, B, C) ==
    LET o == state_observability(A, C)
        c == state_controllability(A, B)
    IN  IF o.err # "none"
        THEN \* line 80 raises: line 81 is not reached
             [err |-> o.err, trace |-> o.trace, locals |-> NoValue, val |-> NoValue]
        ELSE IF c.err # "none"
        THEN [err |-> c.err, trace |-> o.trace \o c.trace,
              locals |-> [state_obsr |-> o.val.state_obsr], val |-> NoValue]
        ELSE [err |-> "none", trace |-> o.trace \o c.trace,
              locals |-> [state_obsr |-> o.val.state_obsr,
                          state_control |-> c.val.state_control],
              val |-> is_min_real_of(c.val.state_control, o.val.state_obsr)]

(***************************************************************************)
(* pole_zero_directions(G, vec, dir_type, display_type, e)                 *)
(*                                                                         *)
(* A location is a complex number <<re, im>>, both parts counted in units  *)
(* of the default epsilon 0.00001. The evaluator G is the caller's: the    *)
(* matrix it returns at s is kept symbolic, and so are the factors the SVD *)
(* helper of utils returns for it.                                         *)
(***************************************************************************)
\* e=0.00001 of the signature, the unit the locations are counted in
e_default == 1

\* 1.0 in units of e_default: 1 / 0.00001
LocUnit == 100000

\* rows (outputs) and columns (inputs) of the matrix G returns
NumOutputs == 2
NumInputs == 3

\* d + e of complex numbers
Plus(d, e) == <<d[1] + e[1], d[2] + e[2]>>

\* G(s): the matrix of the transfer function at s
G(s) == [G_at |-> s]

\* utils.SVD(g): U is outputs x outputs, V is inputs x inputs
SVD(g) ==
    [U |-> [i \in 1..NumOutputs |-> [j \in 1..NumOutputs |->
                [factor |-> "U", of |-> g, row |-> i, col |-> j]]],
     S |-> [k \in 1..(IF NumOutputs < NumInputs THEN NumOutputs ELSE NumInputs) |->
                [factor |-> "S", of |-> g, k |-> k]],
     V |-> [i \in 1..NumInputs |-> [j \in 1..NumInputs |->
                [factor |-> "V", of |-> g, row |-> i, col |-> j]]]]

\* M[:, dt] with Python's index dt: 0 is the first column, -1 the last
Column(M, dt) == Col(M, IF dt < 0 THEN Cols(M) + dt + 1 ELSE dt + 1)

\* a slip of lines 135-139: e is left as passed for every dir_type
e_unforced(dir_type, e) == e

\* lines 135-139: the column index and the epsilon in force
dt_of(dir_type) == IF dir_type = "p" THEN 0 ELSE -1
e_of(dir_type, e) == IF dir_type = "p" THEN e ELSE <<0, 0>>

\* a slip of line 143: G(d) written for G(d + e)
eval_point_at_d(d, dir_type, e) == d

\* line 143: the point G is evaluated at for the location d
eval_point(d, dir_type, e) == Plus(d, e_of(dir_type, e))

\* a slip of lines 146-147: u read from U and y from V
pz_entry_swapped(d, dir_type, display_type, e) ==
    LET g == G(eval_point(d, dir_type, e))
        usv == SVD(g)
        u == Column(usv.U, dt_of(dir_type))
        y == Column(usv.V, dt_of(dir_type))
    IN  IF display_type = "u" THEN u
        ELSE IF display_type = "y" THEN y
        ELSE <<d, u, y>>

\* lines 145-153: the entry appended for the location d
pz_entry(d, dir_type, display_type, e) ==
    LET g == G(eval_point(d, dir_type, e))
        usv == SVD(g)
        u == Column(usv.V, dt_of(dir_type))
        y == Column(usv.U, dt_of(dir_type))
    IN  IF display_type = "u" THEN u
        ELSE IF display_type = "y" THEN y
        ELSE <<d, u, y>>

\* a slip of lines 149-153: the entries inserted at the front of pz_dir
RECURSIVE pz_loop_front(_, _, _, _)
pz_loop_front(vec, dir_type, display_type, e) ==
    IF vec = <<>> THEN [pz_dir |-> <<>>, trace |-> <<>>]
    ELSE LET d == Head(vec)
             s == eval_point(d, dir_type, e)
             rest == pz_loop_front(Tail(vec), dir_type, display_type, e)
         IN  [pz_dir |-> rest.pz_dir \o <<pz_entry(d, dir_type, display_type, e)>>,
              trace |-> <<Ev("G", s), Ev("SVD", G(s))>> \o rest.trace]

\* lines 141-155: the loop over vec, in order
RECURSIVE pz_loop(_, _, _, _)
pz_loop(vec, dir_type, display_type, e) ==
    IF vec = <<>> THEN [pz_dir |-> <<>>, trace |-> <<>>]
    ELSE LET d == Head(vec)
             s == eval_point(d, dir_type, e)
             rest == pz_loop(Tail(vec), dir_type, display_type, e)
         IN  [pz_dir |-> <<pz_entry(d, dir_type, display_type, e)>> \o rest.pz_dir,
              trace |-> <<Ev("G", s), Ev("SVD", G(s))>> \o rest.trace]

pole_zero_directions(vec, dir_type, display_type, e) ==
    LET r == pz_loop(vec, dir_type, display_type, e)
    IN  [err |-> "none", trace |-> r.trace, val |-> r.pz_dir]

(***************************************************************************)
(* zero(A, B, C, D)                                                        *)
(*                                                                         *)
(* A polynomial in z is the sequence of its coefficients, constant term    *)
(* first, with no trailing zero: <<>> is the zero polynomial. The roots    *)
(* are exact: a root is a fraction <<numerator, denominator>> in lowest    *)
(* terms with a positive denominator.                                      *)
(***************************************************************************)
RECURSIVE Trim(_)
Trim(p) ==
    IF p = <<>> THEN <<>>
    ELSE IF p[Len(p)] = 0 THEN Trim(SubSeq(p, 1, Len(p) - 1)) ELSE p

Coef(p, k) == IF k <= Len(p) THEN p[k] ELSE 0

PAdd(p, q) ==
    Trim([k \in 1..(IF Len(p) > Len(q) THEN Len(p) ELSE Len(q)) |->
            Coef(p, k) + Coef(q, k)])

PNeg(p) == [k \in 1..Len(p) |-> -p[k]]

PMul(p, q) ==
    IF p = <<>> \/ q = <<>> THEN <<>>
    ELSE Trim([k \in 1..(Len(p) + Len(q) - 1) |->
            SumSeq([i \in 1..Len(p) |->
                IF k - i + 1 >= 1 /\ k - i + 1 <= Len(q)
                THEN Mul(p[i], q[k - i + 1]) ELSE 0])])

\* the matrix left when row 1 and column j are struck out
Minor(M, j) ==
    [i \in 1..(Rows(M) - 1) |->
        [k \in 1..(Cols(M) - 1) |-> M[i + 1][IF k < j THEN k ELSE k + 1]]]

\* line 183: f.det(), expanded along the first row
RECURSIVE det(_)
det(M) ==
    IF Rows(M) = 1 THEN M[1][1]
    ELSE LET term(j) == PMul(M[1][j], det(Minor(M, j)))
             RECURSIVE acc(_)
             acc(j) == IF j = 0 THEN <<>>
                       ELSE PAdd(acc(j - 1),
                                 IF j % 2 = 1 THEN term(j) ELSE PNeg(term(j)))
         IN  acc(Cols(M))

RECURSIVE GCD(_, _)
GCD(a, b) == IF b = 0 THEN a ELSE GCD(b, a % b)

\* num/den in lowest terms, den > 0
Fraction(num, den) ==
    LET g == GCD(Abs(num), Abs(den))
        sgn == IF den < 0 THEN -1 ELSE 1
    IN  <<sgn * (num \div g), sgn * (den \div g)>>

\* line 184: sp.solve(zf, z). A constant, zero or not, has no solution;
\* the inputs of the model keep the degree of zf at 1 or below
solve(zf) ==
    IF Len(zf) <= 1 THEN <<>>
    ELSE <<Fraction(-zf[1], zf[2])>>

\* a slip of lines 165-166: B and D in each other's block
system_matrix_swapped(A, B, C, D) == vstack(<<hstack(<<A, D>>), hstack(<<C, B>>)>>)

\* lines 165-168: M = [[A, B], [C, D]]
system_matrix(A, B, C, D) == vstack(<<hstack(<<A, B>>), hstack(<<C, D>>)>>)

\* lines 169-180: Ig = [[I, 0], [0, 0]], the blocks shaped as A, B, C, D
Ig_of(A, B, C, D) ==
    vstack(<<hstack(<<eye(Rows(A)), zeros(Rows(B), Cols(B))>>),
             hstack(<<zeros(Rows(C), Cols(C)), zeros(Rows(D), Cols(D))>>)>>)

\* lines 181-182: f = z*Ig - M, entry by entry a polynomial in z
pencil(A, B, C, D) ==
    LET M == system_matrix(A, B, C, D)
        Ig == Ig_of(A, B, C, D)
    IN  [i \in 1..Rows(M) |-> [j \in 1..Cols(M) |-> Trim(<<-M[i][j], Ig[i][j]>>)]]

zero(A, B, C, D) ==
    LET zf == det(pencil(A, B, C, D))
    IN  [err |-> "none", trace |-> <<>>, zf |-> zf, val |-> solve(zf)]

(***************************************************************************)
(* The inputs of the calls.                                                *)
(***************************************************************************)
\* the numbers of inputs m and of outputs p of the state-space systems
IODims == {1, 2}

\* entries of A, of B and of C. Small is 0.0004, which np.around turns to
\* 0: it is an entry of the single-output C of state_observability
AVals == {-Unit, 0, Unit}
BVals == {0, Unit}
Small == (4 * Step) \div 10
CVals == {-Unit, 0, Unit}
CValsSmall == CVals \cup {Small}

\* np.diag(v)
diag(v) == [i \in 1..Len(v) |-> [j \in 1..Len(v) |-> IF i = j THEN v[i] ELSE 0]]

DiagSet(n) == {diag(v) : v \in [1..n -> AVals]}

\* the textbook pair of the controllability matrix: A = [[0,1],[0,0]]
JordanA == << <<0, Unit>>, <<0, 0>> >>

\* a matrix that is not square
WideA == << <<Unit, 0>> >>

ASet == UNION {DiagSet(n) : n \in 1..MaxN} \cup {JordanA, WideA}
BSet == UNION {Matrix(r, m, BVals) : r \in 1..MaxN, m \in IODims}
CSet1 == UNION {Matrix(1, c, CValsSmall) : c \in 1..MaxN}
CSet == CSet1 \cup UNION {Matrix(p, c, CVals) : p \in IODims \ {1}, c \in 1..MaxN}

\* single-input, single-output systems for is_min_realisation
BSet1 == UNION {Matrix(r, 1, BVals) : r \in 1..MaxN}
CSetMin == UNION {Matrix(1, c, BVals) : c \in 1..MaxN}

\* locations, epsilons and the two string arguments of pole_zero_directions
Locs == {<<0, 0>>, <<LocUnit, 0>>, <<-LocUnit, LocUnit>>}
VecSet == UNION {[1..k -> Locs] : k \in 0..MaxLen}
ESet == {<<e_default, 0>>, <<0, 0>>, <<-e_default, e_default>>}
DirTypes == {"p", "z", "other"}
DisplayTypes == {"a", "u", "y", "other"}

\* systems for zero(): every scalar system with entries up to MaxVal, and
\* the two-state single-input single-output systems with D = 0
ZVals == {v * Unit : v \in (-MaxVal)..MaxVal}
ZeroArgs ==
    {[A |-> <<<<a>>>>, B |-> <<<<b>>>>, C |-> <<<<c>>>>, D |-> <<<<d>>>>] :
        a \in ZVals, b \in ZVals, c \in ZVals, d \in ZVals}
    \cup
    {[A |-> A, B |-> B, C |-> C, D |-> <<<<0>>>>] :
        A \in Matrix(2, 2, BVals) \cup DiagSet(2),
        B \in Matrix(2, 1, BVals), C \in Matrix(1, 2, AVals)}

(***************************************************************************)
(* The calls.                                                              *)
(***************************************************************************)
Init ==
    /\ fn = "none"
    /\ args = NoValue
    /\ locals = NoValue
    /\ ret = NoValue
    /\ err = "none"
    /\ trace = <<>>

StateControllability ==
    /\ fn = "none"
    /\ \E A \in ASet, B \in BSet :
        \E r \in {state_controllability(A, B)} :
            /\ fn' = "state_controllability"
            /\ args' = [A |-> A, B |-> B]
            /\ locals' = NoValue
            /\ ret' = r.val
            /\ err' = r.err
            /\ trace' = r.trace

StateObservability ==
    /\ fn = "none"
    /\ \E A \in ASet, C \in CSet :
        \E r \in {state_observability(A, C)} :
            /\ fn' = "state_observability"
            /\ args' = [A |-> A, C |-> C]
            /\ locals' = NoValue
            /\ ret' = r.val
            /\ err' = r.err
            /\ trace' = r.trace

IsMinRealisation ==
    /\ fn = "none"
    /\ \E A \in ASet, B \in BSet1, C \in CSetMin :
        \E r \in {is_min_realisation(A, B, C)} :
            /\ fn' = "is_min_realisation"
            /\ args' = [A |-> A, B |-> B, C |-> C]
            /\ locals' = r.locals
            /\ ret' = r.val
            /\ err' = r.err
            /\ trace' = r.trace

PoleZeroDirections ==
    /\ fn = "none"
    /\ \E vec \in VecSet, dir_type \in DirTypes, display_type \in DisplayTypes, e \in ESet :
        \E r \in {pole_zero_directions(vec, dir_type, display_type, e)} :
            /\ fn' = "pole_zero_directions"
            /\ args' = [vec |-> vec, dir_type |-> dir_type,
                        display_type |-> display_type, e |-> e]
            /\ locals' = NoValue
            /\ ret' = r.val
            /\ err' = r.err
            /\ trace' = r.trace

Zero ==
    /\ fn = "none"
    /\ \E a \in ZeroArgs :
        \E r \in {zero(a.A, a.B, a.C, a.D)} :
            /\ fn' = "zero"
            /\ args' = a
            /\ locals' = [zf |-> r.zf]
            /\ ret' = r.val
            /\ err' = r.err
            /\ trace' = r.trace

\* the call is over: its values are dropped, the module keeps nothing
Return ==
    /\ fn # "none"
    /\ fn' = "none"
    /\ args' = NoValue
    /\ locals' = NoValue
    /\ ret' = NoValue
    /\ err' = "none"
    /\ trace' = <<>>

Next ==
    \/ StateControllability
    \/ StateObservability
    \/ IsMinRealisation
    \/ PoleZeroDirections
    \/ Zero
    \/ Return

Spec == Init /\ [][Next]_vars

(***************************************************************************)
(* Properties.                                                             *)
(***************************************************************************)
Returned(f) == fn = f /\ err = "none"

\* the diagonal entries of A are pairwise distinct
DistinctDiagonal(A) ==
    IsDiagonal(A) /\ \A i, j \in 1..Rows(A) : i # j => A[i][i] # A[j][j]

AllZero(row) == \A k \in 1..Len(row) : row[k] = 0

\* the points G was called at, in call order
GCalls ==
    LET g == SelectSeq(trace, LAMBDA ev : ev.op = "G")
    IN  [i \in 1..Len(g) |-> g[i].at]

\* C1: is_min_realisation(A, B, C) returns true exactly when
\* state_controllability(A, B) and state_observability(A, C) both decide
\* true, on every (A, B, C) it returns for.
MinRealIsConjunction ==
    Returned("is_min_realisation") =>
        /\ ret \in BOOLEAN
        /\ ret <=> /\ state_controllability(args.A, args.B).val.state_control
                   /\ state_observability(args.A, args.C).val.state_obsr
        /\ ret <=> (locals.state_control /\ locals.state_obsr)

\* a realisation that is controllable, not observable, and so not minimal
MinRealWitness ==
    /\ Returned("is_min_realisation")
    /\ locals.state_control /\ ~ locals.state_obsr
    /\ ret = FALSE

\* C2: state_controllability decides true exactly when no input pole vector
\* u_p_i = B^H v_i has Euclidean norm 0; for a diagonal A with distinct
\* eigenvalues, a B of ones gives true with every norm positive, and an
\* all-zero row k of B gives u_p_k of norm 0 and the decision false.
ControllabilityDecision ==
    Returned("state_controllability") =>
        LET A == args.A
            B == args.B
            vl == eig_left(A)
            n == Rows(A)
            m == Cols(B)
            sq(x) == SumSeq([j \in 1..m |-> x[j][1] * x[j][1]])
        IN  /\ Len(ret.u_p) = n
            /\ \A i \in 1..n : \A j \in 1..m :
                  ret.u_p[i][j][1] * Unit =
                      SumSeq([k \in 1..n |-> B[k][j] * vl[k][i]])
            /\ ret.state_control <=> (\A i \in 1..n : sq(ret.u_p[i]) # 0)
            /\ DistinctDiagonal(A) /\ m = 1 /\ (\A k \in 1..n : B[k] = <<Unit>>)
                  => ret.state_control /\ \A i \in 1..n : norm(ret.u_p[i]) > 0
            /\ DistinctDiagonal(A) =>
                  \A k \in 1..n : AllZero(B[k]) =>
                      norm(ret.u_p[k]) = 0 /\ ~ ret.state_control

\* distinct eigenvalues, one row of B all zero next to a row that is not
ControllabilityWitness ==
    /\ Returned("state_controllability")
    /\ DistinctDiagonal(args.A) /\ Rows(args.A) = 2
    /\ AllZero(args.B[2]) /\ ~ AllZero(args.B[1])
    /\ ~ ret.state_control

ZeroAtLocation ==
    (Returned("pole_zero_directions") /\ args.dir_type = "z") =>
        GCalls = args.vec

\* zero directions asked for with a non-zero e
ZeroWitness ==
    /\ Returned("pole_zero_directions") /\ args.dir_type = "z"
    /\ args.e # <<0, 0>> /\ Len(args.vec) >= 2
    /\ GCalls = args.vec

\* the evaluation point an entry of pz_dir was computed at: every
\* direction vector carries the matrix it is a singular vector of
EntryPoint(entry, display_type) ==
    IF display_type \in {"u", "y"} THEN entry[1].of.G_at ELSE entry[2][1].of.G_at

\* C6: pole_zero_directions returns one entry per location of vec, the
\* i-th computed from the i-th location, for every dir_type and
\* display_type.
OneEntryPerLocation ==
    Returned("pole_zero_directions") =>
        /\ Len(ret) = Len(args.vec)
        /\ \A i \in 1..Len(args.vec) :
              /\ EntryPoint(ret[i], args.display_type) =
                    IF args.dir_type = "p" THEN Plus(args.vec[i], args.e)
                    ELSE args.vec[i]
              /\ args.display_type \notin {"u", "y"} => ret[i][1] = args.vec[i]

\* two different locations, the directions returned without the location
OneEntryWitness ==
    /\ Returned("pole_zero_directions")
    /\ Len(args.vec) = 2 /\ args.vec[1] # args.vec[2]
    /\ args.display_type = "u"
    /\ Len(ret) = 2

\* the scalar system A = [-1], B = [1], C = [1], D = [0]
ScalarSystem ==
    [A |-> << <<-Unit>> >>, B |-> << <<Unit>> >>,
     C |-> << <<Unit>> >>, D |-> << <<0>> >>]

\* r = <<num, den>> is a root of the polynomial zf
IsRoot(zf, r) ==
    LET RECURSIVE pw(_, _)
        pw(b, k) == IF k = 0 THEN 1 ELSE b * pw(b, k - 1)
        d == Len(zf) - 1
    IN  SumSeq([k \in 1..Len(zf) |->
            (zf[k] \div Unit) * pw(r[1], k - 1) * pw(r[2], d - (k - 1))]) = 0

\* C7 as claimed: for the scalar system zero() returns a list of exactly
\* one value, the root of det(z*Ig - M).
ScalarSystemOneZero ==
    (Returned("zero") /\ args = ScalarSystem) =>
        /\ Len(ret) = 1
        /\ IsRoot(locals.zf, ret[1])

\* C7 amended: for the scalar system det(z*Ig - M) is the constant -1,
\* which has no root, and zero() returns the empty list; in general zero()
\* returns the roots of det(z*Ig - M), one when it has degree 1 in z and
\* none when it is a constant.
ScalarSystemNoZero ==
    Returned("zero") =>
        /\ args = ScalarSystem => locals.zf = <<-Unit>> /\ ret = <<>>
        /\ \A i \in 1..Len(ret) : IsRoot(locals.zf, ret[i])
        /\ Len(ret) = (IF Len(locals.zf) = 2 THEN 1 ELSE 0)
        /\ Rows(args.A) = 1 =>
              LET a == args.A[1][1] \div Unit
                  b == args.B[1][1] \div Unit
                  c == args.C[1][1] \div Unit
                  d == args.D[1][1] \div Unit
              IN  IF d = 0 THEN ret = <<>>
                  ELSE Len(ret) = 1 /\ ret[1][1] * d = (a * d - b * c) * ret[1][2]

\* zero() has returned for the scalar system
ScalarSystemWitness ==
    /\ Returned("zero") /\ args = ScalarSystem
    /\ ret = <<>>

\* C8: the controllability matrix returned is [B, A B, ..., A^(n-1) B],
\* n x (n m), whatever the decision; for A = [[0,1],[0,0]], B = [[0],[1]]
\* it is [[0,1],[1,0]].
ControllabilityMatrix ==
    Returned("state_controllability") =>
        LET A == args.A
            B == args.B
            n == Rows(A)
            m == Cols(B)
            cm == ret.control_matrix
            RECURSIVE block(_)
            block(k) ==
                IF k = 0 THEN B
                ELSE LET prev == block(k - 1)
                     IN  [i \in 1..n |-> [j \in 1..m |->
                            SumSeq([l \in 1..n |-> A[i][l] * prev[l][j]]) \div Unit]]
        IN  /\ Rows(cm) = n
            /\ \A i \in 1..n : Len(cm[i]) = n * m
            /\ \A k \in 0..(n - 1) : \A i \in 1..n : \A j \in 1..m :
                  cm[i][k * m + j] = block(k)[i][j]
            /\ (A = JordanA /\ B = << <<0>>, <<Unit>> >>) =>
                  cm = << <<0, Unit>>, <<Unit, 0>> >>

\* the textbook pair, decided controllable
ControllabilityMatrixWitness ==
    /\ Returned("state_controllability")
    /\ args.A = JordanA /\ args.B = << <<0>>, <<Unit>> >>
    /\ ret.control_matrix = << <<0, Unit>>, <<Unit, 0>> >>

\* the call in progress was handed a B or a C that does not fit A
ShapeMismatch ==
    \/ fn = "state_controllability" /\ Rows(args.B) # Rows(args.A)
    \/ fn = "state_observability" /\ Cols(args.C) # Cols(args.A)

EigRan == \E i \in 1..Len(trace) : trace[i].op = "eig"

\* C9 as claimed: a B or C that does not fit A makes the call fail before
\* any eigen-decomposition is performed.
ShapeErrorBeforeEig ==
    ShapeMismatch => err = "ValueError" /\ ~ EigRan

\* C9 amended: a B whose row count, or a C whose column count, differs
\* from the size of a square A makes the call fail with a ValueError that
\* the first pole-vector product raises, after the eigen-decomposition of
\* A has run; only a non-square A fails before the decomposition.
ShapeErrorAfterEig ==
    /\ ShapeMismatch =>
          /\ err = "ValueError" /\ ret = NoValue
          /\ IF IsSquare(args.A) THEN trace = <<Ev("eig", args.A)>>
             ELSE trace = <<>>
    /\ fn \in {"state_controllability", "state_observability"} =>
          (err = "ValueError" <=> (ShapeMismatch \/ ~ IsSquare(args.A)))

\* a B with one row for a 2 x 2 A
ShapeErrorWitness ==
    /\ fn = "state_controllability"
    /\ Rows(args.A) = 2 /\ IsSquare(args.A) /\ Rows(args.B) = 1
    /\ err = "ValueError" /\ EigRan

\* C10: from the factors (U, S, V) of G at the evaluation point, the input
\* direction u is column 0 of V and the output direction y column 0 of U
\* for dir_type 'p', the last columns for 'z'; the entry is u for
\* display_type 'u', y for 'y' and (d, u, y) with the unshifted d otherwise.
DirectionSelection ==
    Returned("pole_zero_directions") =>
        \A i \in 1..Len(args.vec) :
            LET d == args.vec[i]
                isp == args.dir_type = "p"
                usv == SVD(G(IF isp THEN Plus(d, args.e) ELSE d))
                u == [r \in 1..NumInputs |->
                        usv.V[r][IF isp THEN 1 ELSE NumInputs]]
                y == [r \in 1..NumOutputs |->
                        usv.U[r][IF isp THEN 1 ELSE NumOutputs]]
            IN  /\ i <= Len(ret)
                /\ ret[i] = CASE args.display_type = "u" -> u
                              [] args.display_type = "y" -> y
                              [] OTHER -> <<d, u, y>>

\* a zero direction returned as the full triple, from a shifted e
DirectionWitness ==
    /\ Returned("pole_zero_directions")
    /\ args.dir_type = "z" /\ args.display_type = "a"
    /\ args.e # <<0, 0>> /\ Len(args.vec) >= 1
    /\ ret[1][1] = args.vec[1]
    /\ ret[1][2][1].col = NumInputs /\ ret[1][3][1].col = NumOutputs

====
